---- MODULE Spec2Model ----
(***************************************************************************)
(* Model of segmentio/netx: passing file descriptors over a unix domain    *)
(* socket (SendUnixConn, SendUnixFile, RecvUnixConn, RecvUnixFile) and the *)
(* tunnel proxy handler (Tunnel.ServeProxy, TunnelRaw, TunnelLine).        *)
(*                                                                         *)
(* The specifications share the module's variables:                        *)
(*   SpecXfer    a sending process, a receiving process and a peer that    *)
(*               writes other messages to the same socket;                 *)
(*   SpecTunnel  one call of Tunnel.ServeProxy with its relay handler;     *)
(*   SpecRawFair the call with TunnelRaw, under the Go scheduler;          *)
(*   SpecLine    the call with TunnelLine.                                 *)
(***************************************************************************)
EXTENDS Integers, Sequences, FiniteSets, TLC

VARIABLES
    fdt,     \* per process, the descriptor table: <<[desc, open, sys, calls]>>
    sock,    \* messages in flight on the unix socket, oldest first
    s,       \* the sending process: position and locals of the running call
    sres,    \* result of each send operation once it returned
    swrote,  \* whether each send operation wrote a message to the socket
    r,       \* the receiving process: position and locals of the running call
    rres,    \* results of the receive calls that returned, oldest first
    npeer,   \* number of messages the peer wrote
    tpc,     \* Tunnel.ServeProxy: position of the call
    handler, \* Tunnel.Handler: "raw" (TunnelRaw) or "line" (TunnelLine)
    ctx,     \* the caller's context: "active", "canceled" or "deadline"
    conn,    \* the connections from (inbound) and to (outbound)
    ncalls,  \* number of calls of Handler.ServeTunnel
    perr,    \* the value ServeProxy panicked with, "nil" if none
    pol,     \* the relay handler: position and locals
    cp,      \* tunnelRaw's two copy goroutines: position and buffer
    cancelled, \* whether tunnelRaw's cancel function was called
    ins,     \* what the remote end of each connection still sends, and the
             \* lines tunnelLine's readLine returned from it, oldest first
    outs     \* what was written to each connection, oldest first

xvars == <<fdt, sock, s, sres, swrote, r, rres, npeer>>
tvars == <<tpc, handler, ctx, conn, ncalls, perr, pol, cp, cancelled, ins, outs>>
vars == <<fdt, sock, s, sres, swrote, r, rres, npeer,
          tpc, handler, ctx, conn, ncalls, perr, pol, cp, cancelled, ins, outs>>

----------------------------------------------------------------------------
(* Bounds of the model.                                                    *)
MaxPeerMsgs == 1
MaxRecvCalls == 2
MaxBlocks == 2
MaxPeerFds == 3

(* syscall.SizeofCmsghdr and the alignment of control messages on          *)
(* linux/amd64, and the data length RecvUnixFile sizes its buffer for.     *)
SizeofCmsghdr == 16
SizeofPtr == 8
SizeofFd == 4
OobDataLen == 4

CmsgAlignOf(n) == ((n + SizeofPtr - 1) \div SizeofPtr) * SizeofPtr
CmsgLen(datalen) == CmsgAlignOf(SizeofCmsghdr) + datalen
CmsgSpace(datalen) == CmsgAlignOf(SizeofCmsghdr) + CmsgAlignOf(datalen)

(* var oob = make([]byte, syscall.CmsgSpace(4))                            *)
OobLen == CmsgSpace(OobDataLen)

----------------------------------------------------------------------------
(* Descriptor tables.  An entry is one descriptor number of a process:     *)
(*   desc   the open file description (underlying connection) it refers to *)
(*   open   whether the descriptor is open                                 *)
(*   sys    number of close system calls issued on the descriptor          *)
(*   calls  number of times a close operation was invoked on it: the       *)
(*          Close method of the Go value that owns it, or syscall.Close    *)
(* Descriptor numbers are never reused, so a close of a closed descriptor  *)
(* stays visible as sys > 1.                                               *)

NewFd(d) == [desc |-> d, open |-> TRUE, sys |-> 0, calls |-> 0]

(* syscall.Close(fd): the system call itself, whatever the state.          *)
SyscallClose(t, p, i) ==
    [t EXCEPT ![p][i] = [@ EXCEPT !.open = FALSE, !.sys = @ + 1,
                                  !.calls = @ + 1]]

(* os.File.Close and net.Conn.Close:  the first call closes the          *)
(* descriptor, a later call returns os.ErrClosed and issues no system call.*)
ObjClose(t, p, i) ==
    IF t[p][i].open
    THEN [t EXCEPT ![p][i] = [@ EXCEPT !.open = FALSE, !.sys = @ + 1,
                                       !.calls = @ + 1]]
    ELSE [t EXCEPT ![p][i] = [@ EXCEPT !.calls = @ + 1]]

(* A new descriptor of process p for description d (dup, or installed by   *)
(* the kernel on receipt of a rights message).                             *)
AddFd(t, p, d) == [t EXCEPT ![p] = Append(@, NewFd(d))]

OpenFds(t, p, d) == {i \in DOMAIN t[p] : t[p][i].open /\ t[p][i].desc = d}

RECURSIVE CloseEach(_, _, _)
(* for _, fd := range fds { syscall.Close(fd) }                            *)
CloseEach(t, p, fds) ==
    IF fds = <<>> THEN t
    ELSE CloseEach(SyscallClose(t, p, Head(fds)), p, Tail(fds))

----------------------------------------------------------------------------
(* Control messages.  A block is one control message of a socket message:  *)
(*   typ   "rights" (SOL_SOCKET, SCM_RIGHTS) or "other"                     *)
(*   dlen  length of its data in bytes                                     *)
(*   refs  in flight: the descriptions its descriptors refer to;           *)
(*         received: the descriptor numbers installed in the receiver      *)

RightsBlock(refs) == [typ |-> "rights", dlen |-> SizeofFd * Len(refs), refs |-> refs]

(* syscall.UnixRights(fds...): one rights block holding the descriptors.   *)
UnixRights(refs) == << RightsBlock(refs) >>

RECURSIVE MsgSize(_)
MsgSize(m) == IF m = <<>> THEN 0 ELSE CmsgSpace(Head(m).dlen) + MsgSize(Tail(m))

PeerBlocks ==
    { RightsBlock([i \in 1..k |-> "peer"]) : k \in 0..MaxPeerFds }
    \cup { [typ |-> "other", dlen |-> n, refs |-> <<>>] : n \in {0, SizeofPtr} }

(* What a read into the oob buffer can yield: the kernel reports only the  *)
(* control data that fits into the buffer, and installs in the receiving   *)
(* process exactly the descriptors it reports.  The empty message is a     *)
(* message without control data (or the end of the stream).                *)
RECURSIVE FittingMsgs(_)
(* The messages of at most n blocks that fit into the oob buffer.          *)
FittingMsgs(n) ==
    IF n = 0 THEN { <<>> }
    ELSE LET shorter == FittingMsgs(n - 1) IN
         shorter \cup
         { m \in { Append(q, b) : q \in { x \in shorter : Len(x) = n - 1 },
                                  b \in PeerBlocks } :
               MsgSize(m) <= OobLen }

PeerMsgs == FittingMsgs(MaxBlocks)

RECURSIVE ParseFrom(_, _, _)
(* syscall.ParseSocketControlMessage: walk the whole buffer (not only the  *)
(* bytes the read filled in); a header shorter than SizeofCmsghdr, as in   *)
(* the zero bytes that follow the received data, or longer than what is    *)
(* left, is EINVAL.                                                        *)
ParseFrom(blocks, rem, acc) ==
    IF rem < CmsgLen(0) THEN [err |-> "nil", msg |-> acc]
    ELSE IF blocks = <<>> THEN [err |-> "ParseSocketControlMessage", msg |-> <<>>]
    ELSE LET hlen == CmsgLen(Head(blocks).dlen) IN
         IF hlen > rem THEN [err |-> "ParseSocketControlMessage", msg |-> <<>>]
         ELSE ParseFrom(Tail(blocks), rem - CmsgAlignOf(hlen), Append(acc, Head(blocks)))

ParseSocketControlMessage(oob) == ParseFrom(oob, OobLen, <<>>)

(* syscall.ParseUnixRights: EINVAL unless the block is a rights block;     *)
(* len(m.Data)>>2 descriptors.                                             *)
ParseUnixRights(m) ==
    IF m.typ # "rights" THEN [err |-> "ParseUnixRights", fds |-> <<>>]
    ELSE [err |-> "nil", fds |-> SubSeq(m.refs, 1, m.dlen \div SizeofFd)]


RECURSIVE InstallRefs(_, _, _)
(* The kernel installs one new descriptor in the receiving process for     *)
(* each description a rights block refers to.                              *)
InstallRefs(t, refs, acc) ==
    IF refs = <<>> THEN [t |-> t, fds |-> acc]
    ELSE InstallRefs(AddFd(t, "R", Head(refs)), Tail(refs),
                     Append(acc, Len(t["R"]) + 1))

RECURSIVE Deliver(_, _, _, _)
(* socket.ReadMsgUnix(nil, oob) on message m: the receiver's descriptor    *)
(* table, the content of oob and the descriptors that were installed.      *)
Deliver(t, m, oob, got) ==
    IF m = <<>> THEN [t |-> t, oob |-> oob, got |-> got]
    ELSE LET b == Head(m)
             i == InstallRefs(t, b.refs, <<>>)
         IN  Deliver(i.t, Tail(m), Append(oob, [b EXCEPT !.refs = i.fds]),
                     got \o i.fds)

----------------------------------------------------------------------------
(* The sending process.  It owns a connection (descriptor 1) and a file    *)
(* (descriptor 2), calls SendUnixConn on the first and SendUnixFile on the *)
(* second, each at most once, in either order.                             *)

SendOps == {"conn", "file"}
SendIdle == [pc |-> "idle", op |-> "none", f |-> 0, err |-> "nil"]

(* SendUnixConn(socket, conn) is called.                                   *)
S_CallConn ==
    /\ s.pc = "idle" /\ sres["conn"] = "none"
    /\ s' = [pc |-> "sc_file", op |-> "conn", f |-> 0, err |-> "nil"]
    /\ UNCHANGED <<fdt, sock, sres, swrote, r, rres, npeer>>

(* if f, err = c.File(); err != nil { return }: File duplicates the        *)
(* connection's descriptor, or fails.                                      *)
S_FileOk ==
    /\ s.pc = "sc_file"
    /\ fdt' = AddFd(fdt, "S", fdt["S"][1].desc)
    /\ s' = [s EXCEPT !.pc = "sf_write", !.f = Len(fdt["S"]) + 1]
    /\ UNCHANGED <<sock, sres, swrote, r, rres, npeer>>

S_FileErr ==
    /\ s.pc = "sc_file"
    /\ sres' = [sres EXCEPT !["conn"] = "File"]
    /\ s' = SendIdle
    /\ UNCHANGED <<fdt, sock, swrote, r, rres, npeer>>

(* SendUnixFile(socket, file) is called by the application.                *)
S_CallFile ==
    /\ s.pc = "idle" /\ sres["file"] = "none"
    /\ s' = [pc |-> "sf_write", op |-> "file", f |-> 2, err |-> "nil"]
    /\ UNCHANGED <<fdt, sock, sres, swrote, r, rres, npeer>>

(* socket.WriteMsgUnix(nil, oob, nil) succeeds: the message is in flight.  *)
S_WriteOk ==
    /\ s.pc = "sf_write"
    /\ sock' = Append(sock, UnixRights(<< fdt["S"][s.f].desc >>))
    /\ swrote' = [swrote EXCEPT ![s.op] = TRUE]
    /\ s' = [s EXCEPT !.pc = "sf_close"]
    /\ UNCHANGED <<fdt, sres, r, rres, npeer>>

(* S_WriteErr with the file closed on the failed write as well.            *)
S_WriteErr_Closing ==
    /\ s.pc = "sf_write"
    /\ fdt' = ObjClose(fdt, "S", s.f)
    /\ IF s.op = "file"
       THEN /\ sres' = [sres EXCEPT !["file"] = "WriteMsgUnix"]
            /\ s' = SendIdle
       ELSE /\ s' = [s EXCEPT !.pc = "sc_ret", !.err = "WriteMsgUnix"]
            /\ UNCHANGED sres
    /\ UNCHANGED <<sock, swrote, r, rres, npeer>>

(* socket.WriteMsgUnix fails: SendUnixFile returns the error; in           *)
(* SendUnixConn, if err = SendUnixFile(socket, f); err != nil { return }.  *)
S_WriteErr ==
    /\ s.pc = "sf_write"
    /\ IF s.op = "file"
       THEN /\ sres' = [sres EXCEPT !["file"] = "WriteMsgUnix"]
            /\ s' = SendIdle
       ELSE /\ s' = [s EXCEPT !.pc = "sc_ret", !.err = "WriteMsgUnix"]
            /\ UNCHANGED sres
    /\ UNCHANGED <<fdt, sock, swrote, r, rres, npeer>>

(* file.Close(); return, in SendUnixFile after a successful write.         *)
S_FileClose ==
    /\ s.pc = "sf_close"
    /\ fdt' = ObjClose(fdt, "S", s.f)
    /\ IF s.op = "file"
       THEN /\ sres' = [sres EXCEPT !["file"] = "nil"]
            /\ s' = SendIdle
       ELSE /\ s' = [s EXCEPT !.pc = "sc_close"]
            /\ UNCHANGED sres
    /\ UNCHANGED <<sock, swrote, r, rres, npeer>>

(* S_ConnClose without the call of conn.Close().                           *)
S_ConnClose_Skipped ==
    /\ s.pc = "sc_close"
    /\ s' = [s EXCEPT !.pc = "sc_ret"]
    /\ UNCHANGED <<fdt, sock, sres, swrote, r, rres, npeer>>

(* conn.Close(), in SendUnixConn after SendUnixFile returned nil.          *)
S_ConnClose ==
    /\ s.pc = "sc_close"
    /\ fdt' = ObjClose(fdt, "S", 1)
    /\ s' = [s EXCEPT !.pc = "sc_ret"]
    /\ UNCHANGED <<sock, sres, swrote, r, rres, npeer>>

(* S_Return with conn.Close() deferred too, so that it runs on every path. *)
S_Return_ClosingConn ==
    /\ s.pc = "sc_ret"
    /\ fdt' = ObjClose(ObjClose(fdt, "S", s.f), "S", 1)
    /\ sres' = [sres EXCEPT !["conn"] = s.err]
    /\ s' = SendIdle
    /\ UNCHANGED <<sock, swrote, r, rres, npeer>>

(* S_Return with the deferred close issued on the descriptor number, as    *)
(* syscall.Close(fd), instead of on the file.                              *)
S_Return_RawClose ==
    /\ s.pc = "sc_ret"
    /\ fdt' = SyscallClose(fdt, "S", s.f)
    /\ sres' = [sres EXCEPT !["conn"] = s.err]
    /\ s' = SendIdle
    /\ UNCHANGED <<sock, swrote, r, rres, npeer>>

(* return, in SendUnixConn once f exists: the deferred f.Close() runs      *)
(* and the call returns err.                                               *)
S_Return ==
    /\ s.pc = "sc_ret"
    /\ fdt' = ObjClose(fdt, "S", s.f)
    /\ sres' = [sres EXCEPT !["conn"] = s.err]
    /\ s' = SendIdle
    /\ UNCHANGED <<sock, swrote, r, rres, npeer>>

----------------------------------------------------------------------------
(* The peer: another writer of the socket's other end.                     *)
PeerSend ==
    /\ npeer < MaxPeerMsgs
    /\ \E m \in PeerMsgs : sock' = Append(sock, m)
    /\ npeer' = npeer + 1
    /\ UNCHANGED <<fdt, s, sres, swrote, r, rres>>

----------------------------------------------------------------------------
(* The receiving process: up to MaxRecvCalls calls of RecvUnixConn or      *)
(* RecvUnixFile, one after the other.                                      *)

RecvOps == {"conn", "file"}
Err(kind, n) == [kind |-> kind, n |-> n]
NoErr == Err("nil", 0)
RecvIdle == [pc |-> "idle", op |-> "none", oob |-> <<>>, got |-> <<>>,
             file |-> 0, conn |-> 0, err |-> NoErr]

(* The record of a receive call that returned: its error, the descriptor   *)
(* of the value it returned (0 for none), the raw descriptor RecvUnixFile  *)
(* produced, the control data the read put into oob and the descriptors    *)
(* the read delivered to the process.                                      *)
RecvResult(op, err, ret, file, oob, got) ==
    [op |-> op, err |-> err, ret |-> ret, file |-> file, oob |-> oob, got |-> got]

R_Call ==
    /\ r.pc = "idle" /\ Len(rres) < MaxRecvCalls
    /\ \E op \in RecvOps : r' = [RecvIdle EXCEPT !.pc = "rf_read", !.op = op]
    /\ UNCHANGED <<fdt, sock, s, sres, swrote, rres, npeer>>

(* socket.ReadMsgUnix fails: RecvUnixFile returns the error, and           *)
(* RecvUnixConn returns it in turn.                                        *)
R_ReadErr ==
    /\ r.pc = "rf_read"
    /\ rres' = Append(rres, RecvResult(r.op, Err("ReadMsgUnix", 0), 0, 0, <<>>, <<>>))
    /\ r' = RecvIdle
    /\ UNCHANGED <<fdt, sock, s, sres, swrote, npeer>>

(* socket.ReadMsgUnix(nil, oob) reads the oldest message.                  *)
R_ReadOk ==
    /\ r.pc = "rf_read" /\ sock # <<>>
    /\ LET d == Deliver(fdt, Head(sock), <<>>, <<>>) IN
         /\ fdt' = d.t
         /\ r' = [r EXCEPT !.pc = "rf_parse", !.oob = d.oob, !.got = d.got]
    /\ sock' = Tail(sock)
    /\ UNCHANGED <<s, sres, swrote, rres, npeer>>

(* RecvParse without the loop that closes the descriptors.                 *)
RecvParse_NoClose(t, oob) ==
    LET p == ParseSocketControlMessage(oob) IN
    IF p.err # "nil" THEN [err |-> Err(p.err, 0), t |-> t, file |-> 0]
    ELSE IF Len(p.msg) # 1
    THEN [err |-> Err("control messages", Len(p.msg)), t |-> t, file |-> 0]
    ELSE LET u == ParseUnixRights(p.msg[1]) IN
    IF u.err # "nil" THEN [err |-> Err(u.err, 0), t |-> t, file |-> 0]
    ELSE IF Len(u.fds) # 1
    THEN [err |-> Err("file descriptors", Len(u.fds)), t |-> t, file |-> 0]
    ELSE [err |-> NoErr, t |-> t, file |-> u.fds[1]]

(* RecvUnixFile from the parse of the control data to its return: the      *)
(* error, the descriptor table and the descriptor of the file returned.    *)
RecvParse(t, oob) ==
    LET p == ParseSocketControlMessage(oob) IN
    IF p.err # "nil" THEN [err |-> Err(p.err, 0), t |-> t, file |-> 0]
    ELSE IF Len(p.msg) # 1
    THEN [err |-> Err("control messages", Len(p.msg)), t |-> t, file |-> 0]
    ELSE LET u == ParseUnixRights(p.msg[1]) IN
    IF u.err # "nil" THEN [err |-> Err(u.err, 0), t |-> t, file |-> 0]
    ELSE IF Len(u.fds) # 1
    THEN [err |-> Err("file descriptors", Len(u.fds)),
          t |-> CloseEach(t, "R", u.fds), file |-> 0]
    ELSE [err |-> NoErr, t |-> t, file |-> u.fds[1]]

(* The rest of RecvUnixFile; on an error RecvUnixConn returns it.          *)
R_Parse ==
    /\ r.pc = "rf_parse"
    /\ LET q == RecvParse(fdt, r.oob) IN
         /\ fdt' = q.t
         /\ IF q.err # NoErr \/ r.op = "file"
            THEN /\ rres' = Append(rres, RecvResult(r.op, q.err, q.file, q.file, r.oob, r.got))
                 /\ r' = RecvIdle
            ELSE /\ r' = [r EXCEPT !.pc = "rc_fileconn", !.file = q.file]
                 /\ UNCHANGED rres
    /\ UNCHANGED <<sock, s, sres, swrote, npeer>>

(* net.FileConn(f): a connection on a duplicate of f's descriptor.         *)
R_FileConnOk ==
    /\ r.pc = "rc_fileconn"
    /\ fdt' = AddFd(fdt, "R", fdt["R"][r.file].desc)
    /\ r' = [r EXCEPT !.pc = "rc_ret", !.conn = Len(fdt["R"]) + 1]
    /\ UNCHANGED <<sock, s, sres, swrote, rres, npeer>>

R_FileConnErr ==
    /\ r.pc = "rc_fileconn"
    /\ r' = [r EXCEPT !.pc = "rc_ret", !.err = Err("FileConn", 0)]
    /\ UNCHANGED <<fdt, sock, s, sres, swrote, rres, npeer>>

(* R_Return with f closed only when net.FileConn succeeded.                *)
R_Return_CloseOnSuccess ==
    /\ r.pc = "rc_ret"
    /\ fdt' = IF r.err = NoErr THEN ObjClose(fdt, "R", r.file) ELSE fdt
    /\ rres' = Append(rres, RecvResult(r.op, r.err, r.conn, r.file, r.oob, r.got))
    /\ r' = RecvIdle
    /\ UNCHANGED <<sock, s, sres, swrote, npeer>>

(* RecvUnixConn returns: the deferred f.Close() runs.                      *)
R_Return ==
    /\ r.pc = "rc_ret"
    /\ fdt' = ObjClose(fdt, "R", r.file)
    /\ rres' = Append(rres, RecvResult(r.op, r.err, r.conn, r.file, r.oob, r.got))
    /\ r' = RecvIdle
    /\ UNCHANGED <<sock, s, sres, swrote, npeer>>

----------------------------------------------------------------------------
InitXfer ==
    /\ fdt = [p \in {"S", "R"} |->
                IF p = "S" THEN << NewFd("conn"), NewFd("file") >> ELSE <<>>]
    /\ sock = <<>>
    /\ s = SendIdle
    /\ sres = [op \in SendOps |-> "none"]
    /\ swrote = [op \in SendOps |-> FALSE]
    /\ r = RecvIdle
    /\ rres = <<>>
    /\ npeer = 0

(* The tunnel takes no step in the descriptor passing specification.       *)
TunnelUnused ==
    /\ tpc = "unused" /\ handler = "none" /\ ctx = "active"
    /\ conn = <<>> /\ ncalls = 0 /\ perr = "nil" /\ pol = <<>>
    /\ cp = <<>> /\ cancelled = FALSE /\ ins = <<>> /\ outs = <<>>

NextXfer ==
    \/ S_CallConn /\ UNCHANGED tvars
    \/ S_FileOk /\ UNCHANGED tvars
    \/ S_FileErr /\ UNCHANGED tvars
    \/ S_CallFile /\ UNCHANGED tvars
    \/ S_WriteOk /\ UNCHANGED tvars
    \/ S_WriteErr /\ UNCHANGED tvars
    \/ S_FileClose /\ UNCHANGED tvars
    \/ S_ConnClose /\ UNCHANGED tvars
    \/ S_Return /\ UNCHANGED tvars
    \/ PeerSend /\ UNCHANGED tvars
    \/ R_Call /\ UNCHANGED tvars
    \/ R_ReadErr /\ UNCHANGED tvars
    \/ R_ReadOk /\ UNCHANGED tvars
    \/ R_Parse /\ UNCHANGED tvars
    \/ R_FileConnOk /\ UNCHANGED tvars
    \/ R_FileConnErr /\ UNCHANGED tvars
    \/ R_Return /\ UNCHANGED tvars

InitX == InitXfer /\ TunnelUnused

SpecXfer == InitX /\ [][NextXfer]_vars

----------------------------------------------------------------------------
(* The tunnel: one call of Tunnel.ServeProxy(ctx, from, target).           *)

(* Bounds of the model.                                                    *)
MaxLines == 2

(* bufio.NewReaderSize(from, 8192): the maximum length of a line.          *)
MaxLineLen == 8192

Conns == {"from", "to"}
Tasks == {"up", "down"}

(* What a connection's remote end sends is a sequence of items, each a run *)
(* of len bytes that ends with a newline (nl) or, for the last item only,  *)
(* does not; after them the remote end closes the stream ("eof"), the      *)
(* connection fails ("err") or the remote end stays silent ("open").       *)
(* tunnelRaw does not look at the bytes: its items are short chunks.       *)
NoItem == [id |-> "none", len |-> 0, nl |-> FALSE]
ClientItems ==
    { [id |-> i, len |-> n, nl |-> TRUE] :
          i \in {"a", "b"}, n \in {2, MaxLineLen, MaxLineLen + 1} }
    \cup { [id |-> "a", len |-> n, nl |-> FALSE] : n \in {2, MaxLineLen + 1} }
Chunks == { i \in ClientItems : i.len = 2 /\ i.nl }
TargetItems == { [id |-> i, len |-> 2, nl |-> TRUE] : i \in {"x", "y"} }
Ends == {"open", "eof", "err"}

Streams(items) ==
    { q \in UNION { [1..n -> items] : n \in 0..MaxLines } :
          \A k \in 1..(Len(q) - 1) : q[k].nl }

NoConn == [exists |-> FALSE, open |-> FALSE, closer |-> "none", at |-> "none"]
OpenConn == [exists |-> TRUE, open |-> TRUE, closer |-> "none", at |-> "none"]

(* c.Close() called by who: the first call closes the connection and is    *)
(* recorded with the position the relay handler was at.                    *)
ConnClose(cs, c, who) ==
    IF cs[c].open
    THEN [cs EXCEPT ![c] = [@ EXCEPT !.open = FALSE, !.closer = who, !.at = pol.pc]]
    ELSE cs

(* What a Read of connection c meets: the connection closed on this side,  *)
(* bytes to read, the end of the stream, a failure, or nothing yet.        *)
ReadState(c) ==
    IF ~conn[c].open THEN "closed"
    ELSE IF ins[c].items # <<>> THEN "data"
    ELSE ins[c].end

(* The derived context of tunnelRaw is done once cancel was called or the  *)
(* caller's context is done.                                               *)
RawCtxDone == cancelled \/ ctx # "active"

(* ctx.Err() of the caller's context.                                      *)
CtxErr(cx) == IF cx = "canceled" THEN "Canceled" ELSE "DeadlineExceeded"

(* readLine(cx, c, reader): the results the call can return in the current *)
(* state, none when it has to wait.  A done context is reported first; a   *)
(* line longer than the reader's buffer is an error; the end of the stream *)
(* in the middle of a line is reported as the end of the stream or as an   *)
(* unexpected one.                                                         *)
readLine(cx, c) ==
    LET fail(e) == [err |-> e, line |-> NoItem]
        h == Head(ins[c].items)
        atEnd == IF ins[c].end = "eof" THEN {fail("EOF")}
                 ELSE IF ins[c].end = "err" THEN {fail("ReadError")}
                 ELSE {}
    IN  IF cx # "active" THEN {fail(CtxErr(cx))}
        ELSE IF ~conn[c].open THEN {fail("Closed")}
        ELSE IF ins[c].items = <<>> THEN atEnd
        ELSE IF h.len > MaxLineLen THEN {fail("LineTooLong")}
        ELSE IF h.nl THEN {[err |-> "nil", line |-> h]}
        ELSE IF ins[c].end = "eof" THEN {fail("EOF"), fail("UnexpectedEOF")}
        ELSE atEnd

(* fatal(c, err): close the connection and panic with err.                 *)
fatal(c, err) ==
    /\ conn' = ConnClose(conn, c, "fatal")
    /\ pol' = [pol EXCEPT !.pc = "panicked", !.err = err]

PolIdle == [pc |-> "none", line |-> NoItem, err |-> "nil"]
TaskIdle == [pc |-> "none", buf |-> NoItem]

(* The caller's context is cancelled, or its deadline passes.              *)
CtxCancel ==
    /\ ctx = "active" /\ tpc \in {"idle", "dialing", "dialed", "relaying"}
    /\ ctx' = "canceled"
    /\ UNCHANGED <<tpc, handler, conn, ncalls, perr, pol, cp, cancelled, ins, outs>>

CtxDeadline ==
    /\ ctx = "active" /\ tpc \in {"idle", "dialing", "dialed", "relaying"}
    /\ ctx' = "deadline"
    /\ UNCHANGED <<tpc, handler, conn, ncalls, perr, pol, cp, cancelled, ins, outs>>

(* ServeProxy is called: dial := t.DialContext, or the default dialer.     *)
ServeProxy_Call ==
    /\ tpc = "idle"
    /\ tpc' = "dialing"
    /\ UNCHANGED <<handler, ctx, conn, ncalls, perr, pol, cp, cancelled, ins, outs>>

(* to, err := dial(...) returns a connection; defer to.Close().            *)
ServeProxy_DialOk ==
    /\ tpc = "dialing"
    /\ conn' = [conn EXCEPT !["to"] = OpenConn]
    /\ tpc' = "dialed"
    /\ UNCHANGED <<handler, ctx, ncalls, perr, pol, cp, cancelled, ins, outs>>

(* ServeProxy_DialErr going on to the handler instead of panicking.        *)
ServeProxy_DialErr_GoesOn ==
    /\ tpc = "dialing"
    /\ tpc' = "dialed"
    /\ perr' = "DialError"
    /\ UNCHANGED <<handler, ctx, conn, ncalls, pol, cp, cancelled, ins, outs>>

(* ServeProxy_DialErr closing the inbound connection before it panics.     *)
ServeProxy_DialErr_ClosesFrom ==
    /\ tpc = "dialing"
    /\ tpc' = "panicked"
    /\ perr' = "DialError"
    /\ conn' = ConnClose(conn, "from", "ServeProxy")
    /\ UNCHANGED <<handler, ctx, ncalls, pol, cp, cancelled, ins, outs>>

(* dial returns an error: panic(err).                                      *)
ServeProxy_DialErr ==
    /\ tpc = "dialing"
    /\ tpc' = "panicked"
    /\ perr' = "DialError"
    /\ UNCHANGED <<handler, ctx, conn, ncalls, pol, cp, cancelled, ins, outs>>

(* t.Handler.ServeTunnel(ctx, from, to) is called.                         *)
ServeProxy_Serve ==
    /\ tpc = "dialed"
    /\ tpc' = "relaying"
    /\ ncalls' = ncalls + 1
    /\ pol' = [pol EXCEPT !.pc = IF handler = "raw" THEN "entry" ELSE "read1"]
    /\ UNCHANGED <<handler, ctx, conn, perr, cp, cancelled, ins, outs>>

(* ServeProxy_Exit with to.Close() after the handler's call instead of     *)
(* deferred: a panic of the handler skips it.                              *)
ServeProxy_Exit_NotDeferred ==
    /\ tpc = "relaying" /\ pol.pc \in {"returned", "panicked"}
    /\ conn' = IF pol.pc = "returned" THEN ConnClose(conn, "to", "ServeProxy") ELSE conn
    /\ tpc' = IF pol.pc = "returned" THEN "closed" ELSE "panicked"
    /\ perr' = pol.err
    /\ UNCHANGED <<handler, ctx, ncalls, pol, cp, cancelled, ins, outs>>

(* The handler returned or panicked: the deferred to.Close() runs and      *)
(* ServeProxy returns, or the panic goes on to its caller.                 *)
ServeProxy_Exit ==
    /\ tpc = "relaying" /\ pol.pc \in {"returned", "panicked"}
    /\ conn' = ConnClose(conn, "to", "ServeProxy")
    /\ tpc' = IF pol.pc = "returned" THEN "closed" ELSE "panicked"
    /\ perr' = pol.err
    /\ UNCHANGED <<handler, ctx, ncalls, pol, cp, cancelled, ins, outs>>

----------------------------------------------------------------------------
(* tunnelRaw.                                                              *)

(* The source and the destination of each copy goroutine:                  *)
(* go copy(to, from) and go copy(from, to).                                *)
Src(k) == IF k = "up" THEN "from" ELSE "to"
Dst(k) == IF k = "up" THEN "to" ELSE "from"

(* ctx, cancel := context.WithCancel(ctx); go copy(to, from);              *)
(* go copy(from, to).                                                      *)
tunnelRaw_Go ==
    /\ pol.pc = "entry"
    /\ pol' = [pol EXCEPT !.pc = "wait"]
    /\ cp' = [k \in Tasks |-> [pc |-> "read", buf |-> NoItem]]
    /\ UNCHANGED <<tpc, handler, ctx, conn, ncalls, perr, cancelled, ins, outs>>

(* tunnelRaw_Done returning without from.Close().                          *)
tunnelRaw_Done_NoClose ==
    /\ pol.pc = "wait" /\ RawCtxDone
    /\ pol' = [pol EXCEPT !.pc = "returned"]
    /\ UNCHANGED <<tpc, handler, ctx, conn, ncalls, perr, cp, cancelled, ins, outs>>

(* tunnelRaw_Done waiting for both copy goroutines, as a sync.WaitGroup    *)
(* would, instead of the derived context.                                  *)
tunnelRaw_Done_WaitsBoth ==
    /\ pol.pc = "wait" /\ \A k \in Tasks : cp[k].pc = "done"
    /\ conn' = ConnClose(conn, "from", "tunnelRaw")
    /\ pol' = [pol EXCEPT !.pc = "returned"]
    /\ UNCHANGED <<tpc, handler, ctx, ncalls, perr, cp, cancelled, ins, outs>>

(* <-ctx.Done(); from.Close(); return.                                     *)
tunnelRaw_Done ==
    /\ pol.pc = "wait" /\ RawCtxDone
    /\ conn' = ConnClose(conn, "from", "tunnelRaw")
    /\ pol' = [pol EXCEPT !.pc = "returned"]
    /\ UNCHANGED <<tpc, handler, ctx, ncalls, perr, cp, cancelled, ins, outs>>

(* Copy(w, r) reads the next bytes of r.                                   *)
Copy_Read(k) ==
    /\ cp[k].pc = "read" /\ ReadState(Src(k)) = "data"
    /\ cp' = [cp EXCEPT ![k] = [pc |-> "write", buf |-> Head(ins[Src(k)].items)]]
    /\ ins' = [ins EXCEPT ![Src(k)].items = Tail(@)]
    /\ UNCHANGED <<tpc, handler, ctx, conn, ncalls, perr, pol, cancelled, outs>>

(* Copy's read meets the end of the stream or an error (a read of a        *)
(* connection closed on this side is one): Copy returns.                   *)
Copy_ReadEnd(k) ==
    /\ cp[k].pc = "read" /\ ReadState(Src(k)) \in {"closed", "eof", "err"}
    /\ cp' = [cp EXCEPT ![k].pc = "exit"]
    /\ UNCHANGED <<tpc, handler, ctx, conn, ncalls, perr, pol, cancelled, ins, outs>>

(* Copy writes what it read to w.                                          *)
Copy_Write(k) ==
    /\ cp[k].pc = "write" /\ conn[Dst(k)].open
    /\ outs' = [outs EXCEPT ![Dst(k)] = Append(@, cp[k].buf)]
    /\ cp' = [cp EXCEPT ![k] = [pc |-> "read", buf |-> NoItem]]
    /\ UNCHANGED <<tpc, handler, ctx, conn, ncalls, perr, pol, cancelled, ins>>

(* Copy's write fails (always so on a connection closed on this side):     *)
(* Copy returns.                                                           *)
Copy_WriteErr(k) ==
    /\ cp[k].pc = "write"
    /\ cp' = [cp EXCEPT ![k] = [pc |-> "exit", buf |-> NoItem]]
    /\ UNCHANGED <<tpc, handler, ctx, conn, ncalls, perr, pol, cancelled, ins, outs>>

(* defer cancel(): the goroutine ends.                                     *)
copy_Exit(k) ==
    /\ cp[k].pc = "exit"
    /\ cancelled' = TRUE
    /\ cp' = [cp EXCEPT ![k].pc = "done"]
    /\ UNCHANGED <<tpc, handler, ctx, conn, ncalls, perr, pol, ins, outs>>

----------------------------------------------------------------------------
(* tunnelLine.                                                             *)

(* line, err := readLine(ctx, from, r1) returns a line.                    *)
tunnelLine_Read ==
    /\ pol.pc = "read1"
    /\ \E o \in readLine(ctx, "from") :
          /\ o.err = "nil"
          /\ pol' = [pol EXCEPT !.pc = "write1", !.line = o.line]
          /\ ins' = [ins EXCEPT !["from"].items = Tail(@),
                                !["from"].lines = Append(@, o.line)]
    /\ UNCHANGED <<tpc, handler, ctx, conn, ncalls, perr, cp, cancelled, outs>>

(* tunnelLine_ReadEnd returning on any error of the context, as a test of  *)
(* ctx.Err() != nil would.                                                 *)
tunnelLine_ReadEnd_AnyCtxErr ==
    /\ pol.pc = "read1"
    /\ \E o \in readLine(ctx, "from") :
          o.err \in {"EOF", "Canceled", "DeadlineExceeded"}
    /\ pol' = [pol EXCEPT !.pc = "returned"]
    /\ UNCHANGED <<tpc, handler, ctx, conn, ncalls, perr, cp, cancelled, ins, outs>>

(* case io.EOF, context.Canceled: return.                                  *)
tunnelLine_ReadEnd ==
    /\ pol.pc = "read1"
    /\ \E o \in readLine(ctx, "from") : o.err \in {"EOF", "Canceled"}
    /\ pol' = [pol EXCEPT !.pc = "returned"]
    /\ UNCHANGED <<tpc, handler, ctx, conn, ncalls, perr, cp, cancelled, ins, outs>>

(* tunnelLine_ReadErr going on with the bytes the reader's buffer holds    *)
(* when the line is too long, instead of calling fatal.                    *)
tunnelLine_ReadErr_Forwards ==
    /\ pol.pc = "read1"
    /\ \E o \in readLine(ctx, "from") :
          /\ o.err \notin {"nil", "EOF", "Canceled"}
          /\ IF o.err = "LineTooLong"
             THEN /\ pol' = [pol EXCEPT !.pc = "write1",
                                        !.line = [Head(ins["from"].items) EXCEPT
                                                     !.len = MaxLineLen,
                                                     !.nl = FALSE]]
                  /\ conn' = conn
             ELSE fatal("from", o.err)
    /\ UNCHANGED <<tpc, handler, ctx, ncalls, perr, cp, cancelled, ins, outs>>

(* default: fatal(from, err).                                              *)
tunnelLine_ReadErr ==
    /\ pol.pc = "read1"
    /\ \E o \in readLine(ctx, "from") :
          /\ o.err \notin {"nil", "EOF", "Canceled"}
          /\ fatal("from", o.err)
    /\ UNCHANGED <<tpc, handler, ctx, ncalls, perr, cp, cancelled, ins, outs>>

(* tunnelLine_Write going back to read the next line of from without       *)
(* waiting for the reply.                                                  *)
tunnelLine_Write_NoWait ==
    /\ pol.pc = "write1" /\ conn["to"].open
    /\ outs' = [outs EXCEPT !["to"] = Append(@, pol.line)]
    /\ pol' = [pol EXCEPT !.pc = "read1", !.line = NoItem]
    /\ UNCHANGED <<tpc, handler, ctx, conn, ncalls, perr, cp, cancelled, ins>>

(* to.Write(line) succeeds.                                                *)
tunnelLine_Write ==
    /\ pol.pc = "write1" /\ conn["to"].open
    /\ outs' = [outs EXCEPT !["to"] = Append(@, pol.line)]
    /\ pol' = [pol EXCEPT !.pc = "read2", !.line = NoItem]
    /\ UNCHANGED <<tpc, handler, ctx, conn, ncalls, perr, cp, cancelled, ins>>

(* tunnelLine_WriteErr with fatal(to, err): the target's connection is     *)
(* closed instead of the inbound one.                                      *)
tunnelLine_WriteErr_FatalTo ==
    /\ pol.pc = "write1"
    /\ fatal("to", "WriteError")
    /\ UNCHANGED <<tpc, handler, ctx, ncalls, perr, cp, cancelled, ins, outs>>

(* tunnelLine_WriteErr returning as at the end of the stream instead of    *)
(* calling fatal.                                                          *)
tunnelLine_WriteErr_Returns ==
    /\ pol.pc = "write1"
    /\ pol' = [pol EXCEPT !.pc = "returned"]
    /\ UNCHANGED <<tpc, handler, ctx, conn, ncalls, perr, cp, cancelled, ins, outs>>

(* if _, err := to.Write(line); err != nil { fatal(from, err) }            *)
tunnelLine_WriteErr ==
    /\ pol.pc = "write1"
    /\ fatal("from", "WriteError")
    /\ UNCHANGED <<tpc, handler, ctx, ncalls, perr, cp, cancelled, ins, outs>>

(* line, err = readLine(context.Background(), to, r2) returns a line.      *)
tunnelLine_ReadReply ==
    /\ pol.pc = "read2"
    /\ \E o \in readLine("active", "to") :
          /\ o.err = "nil"
          /\ pol' = [pol EXCEPT !.pc = "write2", !.line = o.line]
          /\ ins' = [ins EXCEPT !["to"].items = Tail(@),
                                !["to"].lines = Append(@, o.line)]
    /\ UNCHANGED <<tpc, handler, ctx, conn, ncalls, perr, cp, cancelled, outs>>

(* tunnelLine_ReadReplyErr reading the reply under the caller's context    *)
(* instead of context.Background().                                        *)
tunnelLine_ReadReplyErr_Ctx ==
    /\ pol.pc = "read2"
    /\ \E o \in readLine(ctx, "to") :
          /\ o.err # "nil"
          /\ fatal("from", o.err)
    /\ UNCHANGED <<tpc, handler, ctx, ncalls, perr, cp, cancelled, ins, outs>>

(* ...; err != nil { fatal(from, err) }                                    *)
tunnelLine_ReadReplyErr ==
    /\ pol.pc = "read2"
    /\ \E o \in readLine("active", "to") :
          /\ o.err # "nil"
          /\ fatal("from", o.err)
    /\ UNCHANGED <<tpc, handler, ctx, ncalls, perr, cp, cancelled, ins, outs>>

(* from.Write(line) succeeds: the next turn of the loop.                   *)
tunnelLine_WriteReply ==
    /\ pol.pc = "write2" /\ conn["from"].open
    /\ outs' = [outs EXCEPT !["from"] = Append(@, pol.line)]
    /\ pol' = [pol EXCEPT !.pc = "read1", !.line = NoItem]
    /\ UNCHANGED <<tpc, handler, ctx, conn, ncalls, perr, cp, cancelled, ins>>

(* if _, err := from.Write(line); err != nil { fatal(from, err) }          *)
tunnelLine_WriteReplyErr ==
    /\ pol.pc = "write2"
    /\ fatal("from", "WriteError")
    /\ UNCHANGED <<tpc, handler, ctx, ncalls, perr, cp, cancelled, ins, outs>>

----------------------------------------------------------------------------
(* The state when ServeProxy is called with Handler h, the remote ends of  *)
(* the connections sending streams of the given items.                     *)
TunnelStart(h, fromItems, toItems) ==
    /\ tpc = "idle"
    /\ handler = h
    /\ ctx = "active"
    /\ conn = [c \in Conns |-> IF c = "from" THEN OpenConn ELSE NoConn]
    /\ ncalls = 0
    /\ perr = "nil"
    /\ pol = PolIdle
    /\ cp = [k \in Tasks |-> TaskIdle]
    /\ cancelled = FALSE
    /\ \E f \in Streams(fromItems), g \in Streams(toItems),
          ef \in Ends, eg \in Ends :
          ins = [c \in Conns |->
                   IF c = "from" THEN [items |-> f, end |-> ef, lines |-> <<>>]
                                 ELSE [items |-> g, end |-> eg, lines |-> <<>>]]
    /\ outs = [c \in Conns |-> <<>>]

(* Who closes the connections does not depend on what the lines say: one   *)
(* client's lines and one reply are enough, in every length.  tunnelRaw    *)
(* does not look at the bytes it copies at all.                            *)
RawChunks == { i \in Chunks : i.id = "a" }
SameLines == { i \in ClientItems : i.id = "a" }
SameReplies == { i \in TargetItems : i.id = "x" }

InitTunnel ==
    \/ TunnelStart("raw", RawChunks, SameReplies)
    \/ TunnelStart("line", SameLines, SameReplies)

(* The descriptor passing takes no step in the tunnel's specification.     *)
XferUnused ==
    /\ fdt = <<>> /\ sock = <<>> /\ s = SendIdle /\ sres = <<>> /\ swrote = <<>>
    /\ r = RecvIdle /\ rres = <<>> /\ npeer = 0

InitT == InitTunnel /\ XferUnused

NextTunnel ==
    \/ CtxCancel /\ UNCHANGED xvars
    \/ CtxDeadline /\ UNCHANGED xvars
    \/ ServeProxy_Call /\ UNCHANGED xvars
    \/ ServeProxy_DialOk /\ UNCHANGED xvars
    \/ ServeProxy_DialErr /\ UNCHANGED xvars
    \/ ServeProxy_Serve /\ UNCHANGED xvars
    \/ ServeProxy_Exit /\ UNCHANGED xvars
    \/ tunnelRaw_Go /\ UNCHANGED xvars
    \/ tunnelRaw_Done /\ UNCHANGED xvars
    \/ \E k \in Tasks : Copy_Read(k) /\ UNCHANGED xvars
    \/ \E k \in Tasks : Copy_ReadEnd(k) /\ UNCHANGED xvars
    \/ \E k \in Tasks : Copy_Write(k) /\ UNCHANGED xvars
    \/ \E k \in Tasks : Copy_WriteErr(k) /\ UNCHANGED xvars
    \/ \E k \in Tasks : copy_Exit(k) /\ UNCHANGED xvars
    \/ tunnelLine_Read /\ UNCHANGED xvars
    \/ tunnelLine_ReadEnd /\ UNCHANGED xvars
    \/ tunnelLine_ReadErr /\ UNCHANGED xvars
    \/ tunnelLine_Write /\ UNCHANGED xvars
    \/ tunnelLine_WriteErr /\ UNCHANGED xvars
    \/ tunnelLine_ReadReply /\ UNCHANGED xvars
    \/ tunnelLine_ReadReplyErr /\ UNCHANGED xvars
    \/ tunnelLine_WriteReply /\ UNCHANGED xvars
    \/ tunnelLine_WriteReplyErr /\ UNCHANGED xvars

SpecTunnel == InitT /\ [][NextTunnel]_vars

(* One call of ServeProxy whose Handler is TunnelRaw, with the scheduling  *)
(* of the Go runtime: a goroutine that can run does run.  tunnelRaw itself *)
(* goes on when it can, and so does the deferred cancel of each copy       *)
(* goroutine.  Nothing is assumed of the connections' remote ends, of the  *)
(* caller's context or of the caller of ServeProxy.                        *)
InitRaw == TunnelStart("raw", RawChunks, SameReplies) /\ XferUnused

NextRaw ==
    \/ CtxCancel /\ UNCHANGED xvars
    \/ CtxDeadline /\ UNCHANGED xvars
    \/ ServeProxy_Call /\ UNCHANGED xvars
    \/ ServeProxy_DialOk /\ UNCHANGED xvars
    \/ ServeProxy_DialErr /\ UNCHANGED xvars
    \/ ServeProxy_Serve /\ UNCHANGED xvars
    \/ ServeProxy_Exit /\ UNCHANGED xvars
    \/ tunnelRaw_Go /\ UNCHANGED xvars
    \/ tunnelRaw_Done /\ UNCHANGED xvars
    \/ \E k \in Tasks : Copy_Read(k) /\ UNCHANGED xvars
    \/ \E k \in Tasks : Copy_ReadEnd(k) /\ UNCHANGED xvars
    \/ \E k \in Tasks : Copy_Write(k) /\ UNCHANGED xvars
    \/ \E k \in Tasks : Copy_WriteErr(k) /\ UNCHANGED xvars
    \/ \E k \in Tasks : copy_Exit(k) /\ UNCHANGED xvars

RawScheduling ==
    /\ WF_vars(tunnelRaw_Go /\ UNCHANGED xvars)
    /\ WF_vars(tunnelRaw_Done /\ UNCHANGED xvars)
    /\ \A k \in Tasks : WF_vars(copy_Exit(k) /\ UNCHANGED xvars)

SpecRawFair == InitRaw /\ [][NextRaw]_vars /\ RawScheduling

(* One call of ServeProxy whose Handler is TunnelLine.                     *)
(* The client sends different lines and the target different replies.     *)
InitLine == TunnelStart("line", ClientItems, TargetItems) /\ XferUnused

NextLine ==
    \/ CtxCancel /\ UNCHANGED xvars
    \/ CtxDeadline /\ UNCHANGED xvars
    \/ ServeProxy_Call /\ UNCHANGED xvars
    \/ ServeProxy_DialOk /\ UNCHANGED xvars
    \/ ServeProxy_DialErr /\ UNCHANGED xvars
    \/ ServeProxy_Serve /\ UNCHANGED xvars
    \/ ServeProxy_Exit /\ UNCHANGED xvars
    \/ tunnelLine_Read /\ UNCHANGED xvars
    \/ tunnelLine_ReadEnd /\ UNCHANGED xvars
    \/ tunnelLine_ReadErr /\ UNCHANGED xvars
    \/ tunnelLine_Write /\ UNCHANGED xvars
    \/ tunnelLine_WriteErr /\ UNCHANGED xvars
    \/ tunnelLine_ReadReply /\ UNCHANGED xvars
    \/ tunnelLine_ReadReplyErr /\ UNCHANGED xvars
    \/ tunnelLine_WriteReply /\ UNCHANGED xvars
    \/ tunnelLine_WriteReplyErr /\ UNCHANGED xvars

SpecLine == InitLine /\ [][NextLine]_vars

----------------------------------------------------------------------------
(* Properties of the descriptor passing, checked under SpecXfer.           *)

SenderFd(i) == fdt["S"][i]
RecvFd(i) == fdt["R"][i]
(* The duplicates c.File() made in the sending process.                    *)
SenderDups == { i \in DOMAIN fdt["S"] : i > 2 }
(* The receive calls that returned.                                        *)
Received == { rres[k] : k \in DOMAIN rres }
(* A RecvUnixConn that returned the connection SendUnixConn sent.          *)
MatchingRecv(x) ==
    /\ x.op = "conn" /\ x.err = NoErr
    /\ RecvFd(x.ret).desc = "conn"

(* C1: once SendUnixConn returned nil and the matching RecvUnixConn        *)
(* returned a connection, the sending process has no open descriptor of    *)
(* the underlying connection (the original connection and the duplicated   *)
(* file are closed) and the receiving process has exactly one, that of the *)
(* adopted connection: the raw received descriptor is closed.              *)
C1_OwnedByReceiverOnly ==
    \A x \in Received :
        (sres["conn"] = "nil" /\ MatchingRecv(x)) =>
            /\ ~SenderFd(1).open
            /\ \A i \in SenderDups : ~SenderFd(i).open
            /\ OpenFds(fdt, "S", "conn") = {}
            /\ OpenFds(fdt, "R", "conn") = {x.ret}
            /\ x.file # x.ret /\ ~RecvFd(x.file).open

C1_Witness ==
    \E x \in Received :
        sres["conn"] = "nil" /\ MatchingRecv(x) /\ SenderDups # {}

(* C2: SendUnixFile closes the file if and only if the control message was *)
(* written: after a failed write it has returned the error and the file is *)
(* open and untouched; after a successful one it returns nil and the file  *)
(* is closed.  Both for a direct call and for the call SendUnixConn makes. *)
C2_FileClosedIffWritten ==
    /\ sres["file"] \in {"none", "nil", "WriteMsgUnix"}
    /\ sres["file"] = "nil" => ~SenderFd(2).open /\ swrote["file"]
    /\ sres["file"] = "WriteMsgUnix" =>
          SenderFd(2).open /\ SenderFd(2).calls = 0 /\ ~swrote["file"]
    /\ ~SenderFd(2).open => swrote["file"]
    /\ (s.op = "conn" /\ s.pc = "sc_close") =>
          ~SenderFd(s.f).open /\ swrote["conn"]
    /\ (s.op = "conn" /\ s.pc = "sc_ret" /\ s.err # "nil") =>
          s.err = "WriteMsgUnix" /\ SenderFd(s.f).open /\ ~swrote["conn"]

C2_Witness ==
    /\ sres["file"] = "WriteMsgUnix" /\ SenderFd(2).open
    /\ s.op = "conn" /\ s.pc = "sc_close" /\ ~SenderFd(s.f).open

(* C3: SendUnixConn closes the original connection only when the send      *)
(* succeeded: when extracting the descriptor or sending it failed,         *)
(* SendUnixConn has returned that error and the connection is open, and    *)
(* after a failed extraction no message was written to the socket.         *)
C3_ConnClosedOnlyOnSuccess ==
    /\ sres["conn"] \in {"none", "nil", "File", "WriteMsgUnix"}
    /\ sres["conn"] = "File" =>
          SenderFd(1).open /\ SenderFd(1).calls = 0 /\ ~swrote["conn"]
          /\ SenderDups = {}
    /\ sres["conn"] = "WriteMsgUnix" =>
          SenderFd(1).open /\ SenderFd(1).calls = 0 /\ ~swrote["conn"]
    /\ ~SenderFd(1).open =>
          /\ swrote["conn"]
          /\ \/ sres["conn"] = "nil"
             \/ s.op = "conn" /\ s.pc = "sc_ret" /\ s.err = "nil"

C3_Witness ==
    /\ sres["conn"] = "WriteMsgUnix" /\ SenderFd(1).open
    /\ \E i \in SenderDups : ~SenderFd(i).open

(* The receive calls whose read put exactly one control message, a rights  *)
(* message with a number of descriptors other than one, into the buffer.   *)
WrongCount(x) ==
    /\ Len(x.oob) = 1 /\ x.oob[1].typ = "rights"
    /\ Len(x.oob[1].refs) # 1

(* C4: when the single control message carries a number of descriptors     *)
(* other than one, RecvUnixFile closes every descriptor it received,       *)
(* returns no file and returns an error that reports that number.          *)
C4_WrongCountClosesAll ==
    \A x \in Received :
        WrongCount(x) =>
            /\ x.err = Err("file descriptors", Len(x.oob[1].refs))
            /\ x.ret = 0
            /\ Len(x.got) = Len(x.oob[1].refs)
            /\ \A k \in DOMAIN x.got :
                  ~RecvFd(x.got[k]).open /\ RecvFd(x.got[k]).sys = 1

C4_Witness ==
    \E x \in Received : WrongCount(x) /\ Len(x.got) > 1

(* C5: after every error return of RecvUnixFile and RecvUnixConn no        *)
(* descriptor the receive delivered to the process is open, and no         *)
(* connection was made from one.                                           *)
C5_FailedReceiveLeaksNothing ==
    \A x \in Received :
        x.err # NoErr =>
            /\ x.ret = 0
            /\ \A k \in DOMAIN x.got : ~RecvFd(x.got[k]).open

C5_Witness ==
    \E x \in Received : x.err = Err("FileConn", 0) /\ x.got # <<>>

(* Each operation's obligations on its return, with the count n(e) of      *)
(* closes of a descriptor table entry e.                                   *)
ReleaseDuties(n(_)) ==
    /\ sres["file"] = "nil" => n(SenderFd(2)) = 1
    /\ sres["file"] = "WriteMsgUnix" => n(SenderFd(2)) = 0
    /\ sres["conn"] = "nil" => n(SenderFd(1)) = 1
    /\ sres["conn"] \in {"File", "WriteMsgUnix"} => n(SenderFd(1)) = 0
    /\ sres["conn"] # "none" => \A i \in SenderDups : n(SenderFd(i)) = 1
    /\ \A x \in Received :
          /\ x.err # NoErr => \A k \in DOMAIN x.got : n(RecvFd(x.got[k])) = 1
          /\ (x.err = NoErr /\ x.op = "file") => n(RecvFd(x.ret)) = 0
          /\ (x.err = NoErr /\ x.op = "conn") =>
                n(RecvFd(x.file)) = 1 /\ n(RecvFd(x.ret)) = 0

CloseCalls(e) == e.calls
CloseSyscalls(e) == e.sys

(* C6 as stated: a close operation is never invoked on a descriptor handle *)
(* a second time, and once on every handle the operation has to release.   *)
C6_CloseInvokedOnce ==
    /\ \A p \in DOMAIN fdt : \A i \in DOMAIN fdt[p] : fdt[p][i].calls <= 1
    /\ ReleaseDuties(CloseCalls)

(* C6, amended: every descriptor is released by at most one close system   *)
(* call, and by exactly one when the operation that returned had to        *)
(* release it; Close is invoked a second time only on the duplicated file  *)
(* of a SendUnixConn whose send succeeded, where it issues no system call. *)
C6_ReleasedOnce ==
    /\ \A p \in DOMAIN fdt : \A i \in DOMAIN fdt[p] :
          /\ fdt[p][i].sys <= 1
          /\ fdt[p][i].calls <= 2
          /\ fdt[p][i].calls = 2 =>
                p = "S" /\ i \in SenderDups /\ swrote["conn"] /\ sres["conn"] = "nil"
    /\ ReleaseDuties(CloseSyscalls)

C6_Witness ==
    /\ sres["conn"] = "nil"
    /\ \E i \in SenderDups : SenderFd(i).calls = 2 /\ SenderFd(i).sys = 1
    /\ \E x \in Received : Len(x.got) = 2

----------------------------------------------------------------------------
(* Properties of the tunnel, checked under SpecTunnel.                     *)

(* ServeProxy was left: it returned, or panicked.                          *)
Exited == tpc \in {"closed", "panicked"}
(* The dial succeeded.                                                     *)
Dialed == conn["to"].exists
(* The handler's call ended: it returned, or panicked.                     *)
PolicyEnded == pol.pc \in {"returned", "panicked"}
ClosedBy(c, who) == ~conn[c].open /\ conn[c].closer \in who

(* C7: the handler is called only after a successful dial and at most      *)
(* once; when the dial fails ServeProxy panics with the dial's error and   *)
(* ServeTunnel is never called.                                            *)
C7_HandlerOnlyAfterDial ==
    /\ ncalls <= 1
    /\ ncalls = 1 => Dialed
    /\ pol # PolIdle => ncalls = 1
    /\ tpc = "relaying" => Dialed /\ ncalls = 1
    /\ perr = "DialError" =>
          tpc = "panicked" /\ ~Dialed /\ ncalls = 0 /\ pol = PolIdle
    /\ (~Dialed /\ tpc \notin {"idle", "dialing"}) =>
          tpc = "panicked" /\ perr = "DialError"

C7_Witness ==
    tpc = "panicked" /\ perr = "DialError" /\ ncalls = 0

(* C8: when the dial succeeded, ServeProxy closes the outbound connection  *)
(* after the handler's call ended, by return or by panic, and not before.  *)
C8_OutboundClosedAfterPolicy ==
    /\ (Exited /\ Dialed) =>
          ClosedBy("to", {"ServeProxy"}) /\ conn["to"].at \in {"returned", "panicked"}
    /\ conn["to"].closer = "ServeProxy" => PolicyEnded /\ Exited
    /\ tpc \in {"dialed", "relaying"} => conn["to"].open

C8_Witness ==
    /\ tpc = "panicked" /\ Dialed /\ pol.pc = "panicked"
    /\ ClosedBy("to", {"ServeProxy"}) /\ conn["to"].at = "panicked"

(* C9 as stated: whenever ServeProxy is left after a successful dial, the  *)
(* relay handler has closed the inbound connection and ServeProxy the      *)
(* outbound one.                                                           *)
C9_BothClosedOnExit ==
    (Exited /\ Dialed) =>
        /\ ClosedBy("from", {"tunnelRaw", "fatal"})
        /\ ClosedBy("to", {"ServeProxy"})

(* C9, amended: whenever ServeProxy is left after a successful dial,       *)
(* ServeProxy has closed the outbound connection; the inbound connection   *)
(* was closed by tunnelRaw on each of its exits and by tunnelLine on each  *)
(* fatal exit, and is left open when tunnelLine returns normally (end of   *)
(* the stream, or cancellation).                                           *)
C9_ClosedOnExitButLineReturn ==
    (Exited /\ Dialed) =>
        /\ ClosedBy("to", {"ServeProxy"})
        /\ handler = "raw" => pol.pc = "returned" /\ ClosedBy("from", {"tunnelRaw"})
        /\ (handler = "line" /\ pol.pc = "panicked") =>
              ClosedBy("from", {"fatal"}) /\ tpc = "panicked"
        /\ (handler = "line" /\ pol.pc = "returned") =>
              conn["from"].open /\ tpc = "closed"

C9_Witness ==
    /\ handler = "line" /\ tpc = "closed" /\ Dialed
    /\ conn["from"].open /\ outs["from"] # <<>> /\ ctx = "canceled"

(* C10: when tunnelRaw returns, the inbound and the outbound connection    *)
(* are closed.                                                             *)
C10_RawClosesBoth ==
    (handler = "raw" /\ pol.pc = "returned") =>
        ~conn["from"].open /\ ~conn["to"].open

----------------------------------------------------------------------------
(* tunnelRaw's return.                                                     *)

RawRunning == handler = "raw" /\ pol.pc \in {"entry", "wait"}
RawReturned == handler = "raw" /\ pol.pc = "returned"

(* Copy returned in goroutine k: the direction finished.                   *)
Finished(k) == cp[k].pc \in {"exit", "done"}

(* What lets tunnelRaw return: a direction finished or the caller's        *)
(* context is done.                                                        *)
RawTrigger == ctx # "active" \/ \E k \in Tasks : Finished(k)

C11_ReturnedOnlyAfter ==
    RawReturned => /\ RawTrigger
                   /\ ClosedBy("from", {"tunnelRaw"})
                   /\ conn["from"].at = "wait"

(* C11: tunnelRaw returns only after a copy direction finished or the      *)
(* caller's context was done, and after it closed the inbound connection;  *)
(* and once a direction finishes or the caller's context is done while     *)
(* tunnelRaw runs, tunnelRaw closes the inbound connection and returns,    *)
(* whatever the other direction does.                                      *)
C11_RawReturn ==
    /\ []C11_ReturnedOnlyAfter
    /\ (RawRunning /\ RawTrigger) ~> (RawReturned /\ ~conn["from"].open)

(* tunnelRaw returned after the inbound direction finished, while the      *)
(* other direction still waits for bytes of a silent target.               *)
C11_Witness ==
    /\ RawReturned /\ ctx = "active" /\ Finished("up")
    /\ cp["down"].pc = "read" /\ ReadState("to") = "open"
    /\ ~conn["from"].open

(* Goroutine k waits in Copy's read: nothing it can do until bytes come,   *)
(* the stream ends or fails, or the connection it reads is closed.         *)
TaskBlocked(k) == cp[k].pc = "read" /\ ReadState(Src(k)) = "open"

(* C12: in tunnelRaw the derived context, once done, stays done, and once  *)
(* tunnelRaw has closed the inbound connection each copy goroutine ends:   *)
(* it has finished or it can go on towards its end, none is left waiting.  *)
C12_InboundCloseEndsBothTasks ==
    (handler = "raw" /\ RawCtxDone /\ ClosedBy("from", {"tunnelRaw"}))
        => \A k \in Tasks : Finished(k) \/ ~TaskBlocked(k)

----------------------------------------------------------------------------
(* tunnelLine's loop.                                                      *)

(* The lines readLine returned from the inbound connection and from the    *)
(* target, and the lines written to the target and to the inbound          *)
(* connection, each oldest first.                                          *)
InLines == ins["from"].lines
TargetLines == ins["to"].lines
Forwarded == outs["to"]
Replied == outs["from"]

IsPrefix(p, q) == Len(p) <= Len(q) /\ \A i \in 1..Len(p) : p[i] = q[i]

(* C13: tunnelLine reads a line of from, writes it to to, reads a line of  *)
(* to and writes it to from, in this order and again: the numbers of the   *)
(* four operations done so far never differ by more than one and decrease  *)
(* in this order, so the lines written to the target are at most one more  *)
(* than the replies written to from; the k-th line written to the target   *)
(* is the k-th line read from from and the k-th reply written to from is   *)
(* the k-th line read from the target.                                     *)
C13_Alternation ==
    handler = "line" =>
        LET n1 == Len(InLines)
            w1 == Len(Forwarded)
            n2 == Len(TargetLines)
            w2 == Len(Replied)
        IN  /\ n1 >= w1 /\ w1 >= n2 /\ n2 >= w2 /\ w2 + 1 >= n1
            /\ IsPrefix(Forwarded, InLines)
            /\ IsPrefix(Replied, TargetLines)
            /\ pol.pc \in {"none", "read1"} => n1 = w2
            /\ pol.pc = "write1" => w1 = w2 /\ n1 = w1 + 1 /\ pol.line = InLines[n1]
            /\ pol.pc = "read2" => w1 = n1 /\ n2 = w2 /\ w1 = w2 + 1
            /\ pol.pc = "write2" => n2 = w1 /\ n2 = w2 + 1
                                     /\ pol.line = TargetLines[n2]

(* One turn of the loop is done and the second line, different from the    *)
(* first, was written to the target: the relay waits for its reply.        *)
C13_Witness ==
    /\ handler = "line" /\ pol.pc = "read2"
    /\ Len(Replied) = 1 /\ Len(Forwarded) = 2
    /\ Forwarded[1] # Forwarded[2]
    /\ Replied[1].id = "y"

(* The inbound stream is at its end: nothing, or only the beginning of a   *)
(* line the buffer can hold, came before the remote end closed it.         *)
InboundAtEnd ==
    /\ ins["from"].end = "eof"
    /\ \/ ins["from"].items = <<>>
       \/ /\ ~Head(ins["from"].items).nl
          /\ Head(ins["from"].items).len <= MaxLineLen

LinePositions == {"read1", "write1", "read2", "write2"}

(* C14: when tunnelLine returned, no error is reported, the inbound read   *)
(* met the end of the stream or the cancellation of the caller's context,  *)
(* from is open and every line read was forwarded and answered; when it    *)
(* panicked, fatal closed from at the step that failed: an inbound read    *)
(* whose error is neither of the two, a write to the target, a read of the *)
(* reply or a write to from, and no read or write was done after that     *)
(* step; ServeProxy reports the same error.                                *)
C14_EndOrFatal ==
    handler = "line" =>
        LET n1 == Len(InLines)
            w1 == Len(Forwarded)
            n2 == Len(TargetLines)
            w2 == Len(Replied)
            at == conn["from"].at
        IN  /\ pol.pc = "returned" =>
                  /\ pol.err = "nil"
                  /\ ctx = "canceled" \/ InboundAtEnd
                  /\ conn["from"].open
                  /\ n1 = w1 /\ w1 = n2 /\ n2 = w2
            /\ tpc = "closed" => perr = "nil" /\ pol.pc = "returned"
            /\ pol.pc = "panicked" =>
                  /\ pol.err # "nil"
                  /\ ClosedBy("from", {"fatal"})
                  /\ at \in LinePositions
                  /\ at = "read1" => /\ pol.err \notin {"EOF", "Canceled"}
                                     /\ n1 = w1 /\ w1 = n2 /\ n2 = w2
                  /\ at = "write1" => /\ pol.err = "WriteError"
                                      /\ n1 = w1 + 1 /\ w1 = n2 /\ n2 = w2
                  /\ at = "read2" => n1 = w1 /\ w1 = n2 + 1 /\ n2 = w2
                  /\ at = "write2" => /\ pol.err = "WriteError"
                                      /\ n1 = w1 /\ w1 = n2 /\ n2 = w2 + 1
            /\ (tpc = "panicked" /\ ncalls = 1) =>
                  pol.pc = "panicked" /\ perr = pol.err

(* The target closed its stream instead of replying to the second line:    *)
(* fatal, and ServeProxy panicked with the end of the stream as the error. *)
C14_Witness ==
    /\ handler = "line" /\ tpc = "panicked" /\ perr = "EOF"
    /\ conn["from"].at = "read2" /\ ~conn["from"].open
    /\ Len(Forwarded) = 2 /\ Len(Replied) = 1

(* A whole line: it ends with a newline and the reader's buffer holds it.  *)
WholeLine(i) == i.nl /\ i.len <= MaxLineLen

(* The next bytes of the inbound stream are no whole line.                 *)
InboundUnfinished ==
    ins["from"].items # <<>> /\ ~WholeLine(Head(ins["from"].items))

(* C15: every write of tunnelLine to the target is one whole line read     *)
(* from the inbound connection, newline-terminated and of at most 8192     *)
(* bytes.  When the next bytes of the inbound stream are no whole line,    *)
(* the inbound read returns no line: the relay waits, or ends without      *)
(* having taken a byte of them; a line longer than 8192 bytes ends it by   *)
(* fatal, the inbound connection closed.                                   *)
C15_NoPartialLine ==
    handler = "line" =>
        /\ \A k \in 1..Len(Forwarded) :
              WholeLine(Forwarded[k]) /\ Forwarded[k] = InLines[k]
        /\ pol.pc = "write1" => WholeLine(pol.line)
        /\ (InboundUnfinished /\ pol.pc = "read1") =>
              /\ ~ENABLED (tunnelLine_Read /\ UNCHANGED xvars)
              /\ (ctx = "active" /\ Head(ins["from"].items).len > MaxLineLen)
                    => /\ ENABLED (tunnelLine_ReadErr /\ UNCHANGED xvars)
                       /\ ~ENABLED (tunnelLine_ReadEnd /\ UNCHANGED xvars)
        /\ pol.err = "LineTooLong" =>
              /\ pol.pc = "panicked" /\ ClosedBy("from", {"fatal"})
              /\ conn["from"].at = "read1"
              /\ InboundUnfinished
              /\ Len(Forwarded) = Len(Replied)

(* After a line of exactly 8192 bytes was forwarded and answered, a line   *)
(* of 8193 bytes ended the relay.                                          *)
C15_Witness ==
    /\ handler = "line" /\ pol.pc = "panicked" /\ pol.err = "LineTooLong"
    /\ Len(Forwarded) = 1 /\ Forwarded[1].len = MaxLineLen
    /\ Head(ins["from"].items).len = MaxLineLen + 1
    /\ ~conn["from"].open

(* C16: a done context of the caller does not touch the reply read of      *)
(* tunnelLine: with a line forwarded and the context cancelled, the read   *)
(* of the reply still returns the target's line (or still waits for it)    *)
(* and never fails with the context's error, the reply is written to from, *)
(* and the next inbound read ends the loop, no further line being read or  *)
(* forwarded; so whenever tunnelLine returns, as many replies were written *)
(* to from as lines were written to the target.                            *)
C16_ReplyNotInterrupted ==
    handler = "line" =>
        /\ (pol.pc = "read2" /\ ctx # "active" /\ conn["to"].open) =>
              /\ ReadState("to") = "data" =>
                    /\ ENABLED (tunnelLine_ReadReply /\ UNCHANGED xvars)
                    /\ ~ENABLED (tunnelLine_ReadReplyErr /\ UNCHANGED xvars)
              /\ ReadState("to") = "open" =>
                    ~ENABLED (tunnelLine_ReadReplyErr /\ UNCHANGED xvars)
        /\ (pol.pc = "panicked" /\ conn["from"].at = "read2") =>
              pol.err \notin {"Canceled", "DeadlineExceeded"}
        /\ (pol.pc = "write2" /\ ctx # "active" /\ conn["from"].open) =>
              ENABLED (tunnelLine_WriteReply /\ UNCHANGED xvars)
        /\ (pol.pc = "read1" /\ ctx = "canceled") =>
              /\ ENABLED (tunnelLine_ReadEnd /\ UNCHANGED xvars)
              /\ ~ENABLED (tunnelLine_Read /\ UNCHANGED xvars)
              /\ ~ENABLED (tunnelLine_ReadErr /\ UNCHANGED xvars)
        /\ pol.pc = "returned" => Len(Forwarded) = Len(Replied)

(* The context was cancelled with one line forwarded and answered and the  *)
(* next line of the inbound stream waiting: tunnelLine returned without    *)
(* reading it.                                                             *)
C16_Witness ==
    /\ handler = "line" /\ pol.pc = "returned" /\ ctx = "canceled"
    /\ Len(Forwarded) = 1 /\ Len(Replied) = 1
    /\ ins["from"].items # <<>> /\ WholeLine(Head(ins["from"].items))
    /\ conn["from"].open

----------------------------------------------------------------------------
(* Who closes which connection.                                            *)

----------------------------------------------------------------------------
(* References to the connection SendUnixConn passes.                       *)

(* The messages in flight that hold a reference to description d.          *)
InFlight(d) ==
    { k \in DOMAIN sock :
          \E b \in DOMAIN sock[k] :
              \E j \in DOMAIN sock[k][b].refs : sock[k][b].refs[j] = d }

ConnRefs ==
    Cardinality(OpenFds(fdt, "S", "conn")) + Cardinality(InFlight("conn"))
        + Cardinality(OpenFds(fdt, "R", "conn"))

(* A RecvUnixConn that received the connection and failed to adopt it.     *)
FailedAdoption(x) ==
    /\ x.op = "conn" /\ x.err = Err("FileConn", 0)
    /\ RecvFd(x.file).desc = "conn"

(* C18: as long as no RecvUnixConn failed to adopt it, the connection      *)
(* SendUnixConn passes has a reference: an open descriptor of the sending  *)
(* process, a message in flight or an open descriptor of the receiving     *)
(* process.  Up to the write of the message the sending process holds the  *)
(* connection and its duplicate open; it is without an open descriptor,    *)
(* and the connection itself is closed, only once the message was written. *)
(* RecvUnixConn holds the received descriptor open until net.FileConn      *)
(* returned, and when it returns a connection the received descriptor is   *)
(* closed and the adopted connection is open on the same description.      *)
C18_AlwaysReferenced ==
    /\ (\A x \in Received : ~FailedAdoption(x)) => ConnRefs >= 1
    /\ (s.op = "conn" /\ s.pc \in {"sc_file", "sf_write"}) =>
          /\ SenderFd(1).open
          /\ s.f # 0 => SenderFd(s.f).open /\ SenderFd(s.f).desc = "conn"
    /\ OpenFds(fdt, "S", "conn") = {} => swrote["conn"]
    /\ ~SenderFd(1).open => swrote["conn"]
    /\ (r.op = "conn" /\ r.pc \in {"rc_fileconn", "rc_ret"}) => RecvFd(r.file).open
    /\ \A x \in Received :
          (x.op = "conn" /\ x.err = NoErr) =>
              /\ ~RecvFd(x.file).open
              /\ RecvFd(x.ret).open
              /\ RecvFd(x.ret).desc = RecvFd(x.file).desc

(* SendUnixConn returned nil and closed all it held before the receiving   *)
(* process read anything: the message in flight is the only reference.     *)
C18_Witness ==
    /\ sres["conn"] = "nil"
    /\ OpenFds(fdt, "S", "conn") = {} /\ OpenFds(fdt, "R", "conn") = {}
    /\ InFlight("conn") # {}
    /\ r.pc = "rf_read" /\ r.op = "conn"

----------------------------------------------------------------------------
(* The failure of the dial.                                                *)

(* No handler ran: nothing was read from or written to a connection.       *)
Untouched ==
    /\ ncalls = 0 /\ pol = PolIdle /\ \A k \in Tasks : cp[k] = TaskIdle
    /\ ~cancelled
    /\ \A c \in Conns : outs[c] = <<>> /\ ins[c].lines = <<>>

(* C19: when ServeProxy panicked with the error of the dial, the inbound   *)
(* connection is open and was closed by no one, nothing was read from it   *)
(* or written to it, no handler was called and there is no outbound        *)
(* connection, so none was closed.                                         *)
C19_DialFailureLeavesInbound ==
    /\ tpc \in {"idle", "dialing"} => conn["from"] = OpenConn /\ Untouched
    /\ perr = "DialError" =>
          /\ tpc = "panicked"
          /\ conn["from"] = OpenConn
          /\ conn["to"] = NoConn
          /\ Untouched

(* The dial failed with lines of the client waiting on the inbound         *)
(* connection.                                                             *)
C19_Witness ==
    /\ perr = "DialError" /\ tpc = "panicked"
    /\ conn["from"].open /\ Len(ins["from"].items) = MaxLines

----------------------------------------------------------------------------
(* The deadline of the caller's context.                                   *)

(* C20: tunnelLine returns only when its inbound read met the end of the   *)
(* stream or the cancellation of the caller's context.  When the deadline  *)
(* of the context has passed, the inbound read can only end in fatal: the  *)
(* inbound connection is closed at that read and tunnelLine, then          *)
(* ServeProxy, panic with the deadline's error.                            *)
C20_DeadlineIsFatal ==
    handler = "line" =>
        /\ pol.pc = "returned" => ctx = "canceled" \/ InboundAtEnd
        /\ (pol.pc = "read1" /\ ctx = "deadline") =>
              /\ ENABLED (tunnelLine_ReadErr /\ UNCHANGED xvars)
              /\ ~ENABLED (tunnelLine_ReadEnd /\ UNCHANGED xvars)
              /\ ~ENABLED (tunnelLine_Read /\ UNCHANGED xvars)
        /\ pol.err = "DeadlineExceeded" =>
              /\ pol.pc = "panicked" /\ ctx = "deadline"
              /\ ClosedBy("from", {"fatal"}) /\ conn["from"].at = "read1"
              /\ Exited => tpc = "panicked" /\ perr = "DeadlineExceeded"

(* The deadline passed during the first turn of the loop: the reply was    *)
(* written, the next inbound read was fatal and ServeProxy panicked.       *)
C20_Witness ==
    /\ handler = "line" /\ tpc = "panicked" /\ perr = "DeadlineExceeded"
    /\ Len(Replied) = 1 /\ ~conn["from"].open
    /\ ins["from"].items # <<>>
====
